---- MODULE Spec2Model ----
(***************************************************************************)
(* Model of zmk_locale_generator/update_codepoints.py: the codepoint       *)
(* registry (a list of per-Unicode-block ordered maps codepoint -> name),  *)
(* its reconciliation against the codepoints used by the keyboard layouts  *)
(* (remove_unused_codepoints, add_new_codepoint_placeholders), the comment *)
(* pass (add_codepoint_comments) and the final dump to disk.               *)
(*                                                                         *)
(* Codepoints are the integers 1..MaxCp, ordered as Python orders          *)
(* one-character strings.  Sequences are 1-based, so every index below is  *)
(* the Python index plus one.                                              *)
(***************************************************************************)
EXTENDS Integers, Sequences, FiniteSets, TLC

(***************************************************************************)
(* Bounds of the model.                                                    *)
(***************************************************************************)
\* Codepoints are 1..MaxCp.
MaxCp == 4
\* A registry document on disk holds at most MaxKeys entries in total.
MaxKeys == 3

Codepoints == 1..MaxCp

Min2(a, b) == IF a < b THEN a ELSE b
Max2(a, b) == IF a > b THEN a ELSE b
MinOf(S) == CHOOSE x \in S : \A y \in S : x <= y

(***************************************************************************)
(* Blocks.txt as served by unicode.org: a sorted, non-overlapping list of  *)
(* blocks.  Block n covers the codepoints 2n-2 .. 2n-1 (cut to 1..MaxCp).  *)
(* A table may be stale: the second block is then missing from it.         *)
(***************************************************************************)
BlockNames == <<"Basic Latin", "Latin-1 Supplement", "Latin Extended-A",
                "Latin Extended-B", "IPA Extensions">>
NumBlocks == (MaxCp \div 2) + 1
UnicodeBlock(n) ==
    [start |-> Max2(1, 2 * n - 2), end |-> Min2(2 * n - 1, MaxCp), name |-> BlockNames[n]]
FullTable == [n \in 1..NumBlocks |-> UnicodeBlock(n)]
StaleTable == SelectSeq(FullTable, LAMBDA b : b.name # "Latin-1 Supplement")
get_unicode_blocks == {FullTable, StaleTable}

(***************************************************************************)
(* NameValue: a single name <<"str", s>> or a list of aliases              *)
(* <<"list", a, b, ...>>.  Python's truth value of it is Truthy.           *)
(***************************************************************************)
Placeholder == <<"str", "">>
Truthy(v) == IF v[1] = "str" THEN v[2] # "" ELSE Len(v) > 1

(***************************************************************************)
(* is_visible_character and unicodedata.name on the model's codepoints:    *)
(* codepoint 1 is a control character without a name, codepoint 4 is       *)
(* visible but has no standard name.                                       *)
(***************************************************************************)
NonPrintable == {1}
Unnamed == {1, 4}
is_visible_character(c) == c \notin NonPrintable

NoComment == <<>>

\* get_char_comments joined with " " and prefixed with "# ".
get_char_comments(value, c) ==
    <<"# ", IF is_visible_character(c) THEN <<"char", c>> ELSE <<"(non-printable)">>>>
    \o (IF ~Truthy(value) /\ c \notin Unnamed THEN <<<<"UNICODE_NAME", c>>>> ELSE <<>>)

(***************************************************************************)
(* Sequence helpers.                                                       *)
(***************************************************************************)
Range(seq) == {seq[i] : i \in 1..Len(seq)}
InsertAt(seq, i, x) == SubSeq(seq, 1, i - 1) \o <<x>> \o SubSeq(seq, i, Len(seq))
RemoveAt(seq, i) == SubSeq(seq, 1, i - 1) \o SubSeq(seq, i + 1, Len(seq))

\* sorted(codepoints) of a set.
RECURSIVE sorted(_)
sorted(S) == IF S = {} THEN <<>> ELSE LET m == MinOf(S) IN <<m>> \o sorted(S \ {m})

\* upper_bound(seq, val, gt), given gts[i] = gt(seq[i], val): the index of the
\* first item of seq that is greater than val, or one past the end.
upper_bound(gts) ==
    LET hits == {i \in 1..Len(gts) : gts[i]}
    IN  IF hits = {} THEN Len(gts) + 1 ELSE MinOf(hits)

(***************************************************************************)
(* A group (CommentedMap) is [id, heading, items]: id is the identity of   *)
(* the Python object, heading the comment set before it in the list, items *)
(* the ordered entries [key, value, comment].                              *)
(***************************************************************************)
keys(map) == [j \in 1..Len(map.items) |-> map.items[j].key]
KeySet(map) == {map.items[j].key : j \in 1..Len(map.items)}
IsEmpty(map) == Len(map.items) = 0
\* Only defined on a non-empty map: on an empty one Python raises IndexError.
first_key(map) == map.items[1].key

\* Variant of codepoint_to_block: falls back to the last block of the table when
\* no block contains c.
codepoint_to_block_or_last(c, blks) ==
    LET hits == {n \in 1..Len(blks) : c >= blks[n].start /\ c <= blks[n].end}
    IN  IF hits = {} THEN Len(blks) ELSE MinOf(hits)

\* codepoint_to_block: 0 stands for StopIteration (no block contains c).
codepoint_to_block(c, blks) ==
    LET hits == {n \in 1..Len(blks) : c >= blks[n].start /\ c <= blks[n].end}
    IN  IF hits = {} THEN 0 ELSE MinOf(hits)

(***************************************************************************)
(* find_block.  The generator of line 93 visits the groups in order and    *)
(* stops at the first whose first key lies in the block; first_key raises  *)
(* IndexError on an empty group visited before that.  With no match the    *)
(* scan has visited every group, so compare_blocks only sees non-empty     *)
(* groups.  The result is the outcome, the registry and the index of the   *)
(* returned group.                                                         *)
(***************************************************************************)
compare_blocks(a, b) == first_key(a) > b.end

NewMap(cps) == [id |-> Len(cps) + 1, heading |-> NoComment, items |-> <<>>]

\* Variant of find_block: the test of line 93 without its upper limit.
find_block_no_upper_limit(cps, block) ==
    LET empties == {i \in 1..Len(cps) : IsEmpty(cps[i])}
        matches == {i \in 1..Len(cps) : ~IsEmpty(cps[i]) /\ block.start <= first_key(cps[i])}
        found == /\ matches # {}
                 /\ \A e \in empties : MinOf(matches) < e
    IN  IF found
        THEN [status |-> "ok", codepoints |-> cps, index |-> MinOf(matches)]
        ELSE IF empties # {}
        THEN [status |-> "IndexError", codepoints |-> cps, index |-> 0]
        ELSE LET index == upper_bound([i \in 1..Len(cps) |-> compare_blocks(cps[i], block)])
             IN  [status |-> "ok",
                  codepoints |-> InsertAt(cps, index, NewMap(cps)),
                  index |-> index]

\* Variant of find_block: a new group is appended instead of inserted at the
\* upper bound.
find_block_append(cps, block) ==
    LET empties == {i \in 1..Len(cps) : IsEmpty(cps[i])}
        matches == {i \in 1..Len(cps) :
                       /\ ~IsEmpty(cps[i])
                       /\ block.start <= first_key(cps[i])
                       /\ first_key(cps[i]) <= block.end}
        found == /\ matches # {}
                 /\ \A e \in empties : MinOf(matches) < e
    IN  IF found
        THEN [status |-> "ok", codepoints |-> cps, index |-> MinOf(matches)]
        ELSE IF empties # {}
        THEN [status |-> "IndexError", codepoints |-> cps, index |-> 0]
        ELSE [status |-> "ok",
              codepoints |-> Append(cps, NewMap(cps)),
              index |-> Len(cps) + 1]

find_block(cps, block) ==
    LET empties == {i \in 1..Len(cps) : IsEmpty(cps[i])}
        matches == {i \in 1..Len(cps) :
                       /\ ~IsEmpty(cps[i])
                       /\ block.start <= first_key(cps[i])
                       /\ first_key(cps[i]) <= block.end}
        found == /\ matches # {}
                 /\ \A e \in empties : MinOf(matches) < e
    IN  IF found
        THEN [status |-> "ok", codepoints |-> cps, index |-> MinOf(matches)]
        ELSE IF empties # {}
        THEN [status |-> "IndexError", codepoints |-> cps, index |-> 0]
        ELSE LET index == upper_bound([i \in 1..Len(cps) |-> compare_blocks(cps[i], block)])
             IN  [status |-> "ok",
                  codepoints |-> InsertAt(cps, index, NewMap(cps)),
                  index |-> index]

(***************************************************************************)
(* Lines 144-146: insert c with the placeholder "" at its sorted position  *)
(* unless the map already has the key.                                     *)
(***************************************************************************)
\* Variant of insert_placeholder: tests "if not block" instead of
\* "if c not in block".
insert_placeholder_if_empty(map, c) ==
    IF ~IsEmpty(map)
    THEN map
    ELSE [map EXCEPT !.items =
             InsertAt(@, 1, [key |-> c, value |-> Placeholder, comment |-> NoComment])]

\* Variant of insert_placeholder: assigns block[c] = "" for a key already there.
insert_placeholder_overwrite(map, c) ==
    IF c \in KeySet(map)
    THEN [map EXCEPT !.items =
             [j \in 1..Len(@) |-> IF @[j].key = c THEN [@[j] EXCEPT !.value = Placeholder]
                                                   ELSE @[j]]]
    ELSE LET pos == upper_bound([j \in 1..Len(map.items) |-> keys(map)[j] > c])
         IN  [map EXCEPT !.items =
                 InsertAt(@, pos, [key |-> c, value |-> Placeholder, comment |-> NoComment])]

\* Variant of insert_placeholder: block[c] = "" appends the key at the end.
insert_placeholder_append(map, c) ==
    IF c \in KeySet(map)
    THEN map
    ELSE [map EXCEPT !.items =
             Append(@, [key |-> c, value |-> Placeholder, comment |-> NoComment])]

insert_placeholder(map, c) ==
    IF c \in KeySet(map)
    THEN map
    ELSE LET pos == upper_bound([j \in 1..Len(map.items) |-> keys(map)[j] > c])
         IN  [map EXCEPT !.items =
                 InsertAt(@, pos, [key |-> c, value |-> Placeholder, comment |-> NoComment])]

\* Line 133: del block[c].
delete_key(map, c) == [map EXCEPT !.items = SelectSeq(@, LAMBDA e : e.key # c)]

\* Variant of yaml_add_eol_comment: adds to the comment already there.
yaml_add_eol_comment_append(entry, comment) == [entry EXCEPT !.comment = @ \o comment]

\* Line 170: yaml_add_eol_comment replaces the comment of the entry.
yaml_add_eol_comment(entry, comment) == [entry EXCEPT !.comment = comment]

\* Lines 166-170 for one group whose block is known.
annotate_group(map, block) ==
    [map EXCEPT
        !.heading = <<"\n", block.name>>,
        !.items = [j \in 1..Len(@) |->
                      yaml_add_eol_comment(@[j], get_char_comments(@[j].value, @[j].key))]]

(***************************************************************************)
(* The document on disk.  escape_key writes a key as "\uXXXX" with four    *)
(* upper-case hex digits; load_key is what the YAML loader reads back.     *)
(***************************************************************************)
HexDigits == <<"0", "1", "2", "3", "4", "5", "6", "7",
               "8", "9", "A", "B", "C", "D", "E", "F">>
HexValue(d) == (CHOOSE n \in 1..16 : HexDigits[n] = d) - 1
escape_key(c) ==
    <<"\\u", HexDigits[((c \div 4096) % 16) + 1], HexDigits[((c \div 256) % 16) + 1],
             HexDigits[((c \div 16) % 16) + 1], HexDigits[(c % 16) + 1]>>
load_key(k) ==
    4096 * HexValue(k[2]) + 256 * HexValue(k[3]) + 16 * HexValue(k[4]) + HexValue(k[5])

YAML_HEADER == "# This document maps Unicode codepoints to key names for ZMK."

dump(cps) ==
    [header |-> YAML_HEADER,
     groups |-> [i \in 1..Len(cps) |->
        [heading |-> cps[i].heading,
         entries |-> [j \in 1..Len(cps[i].items) |->
            [key |-> escape_key(cps[i].items[j].key),
             value |-> cps[i].items[j].value,
             comment |-> cps[i].items[j].comment]]]]]

get_codepoint_names_raw(doc) ==
    [i \in 1..Len(doc.groups) |->
        [id |-> i,
         heading |-> doc.groups[i].heading,
         items |-> [j \in 1..Len(doc.groups[i].entries) |->
            [key |-> load_key(doc.groups[i].entries[j].key),
             value |-> doc.groups[i].entries[j].value,
             comment |-> doc.groups[i].entries[j].comment]]]]

(***************************************************************************)
(* The documents the run may find on disk: every list of non-empty groups  *)
(* with distinct keys inside a group and at most MaxKeys entries in all.   *)
(* Of three successive codepoints one has a single name, one a list of     *)
(* aliases and one is a placeholder still to be named; the comments are    *)
(* left over from an edit by hand.                                         *)
(***************************************************************************)
KeySeqs(n) == {s \in [1..n -> Codepoints] : \A i, j \in 1..n : i # j => s[i] # s[j]}

RECURSIVE Shapes(_)
Shapes(budget) ==
    {<<>>} \cup
    UNION {{<<g>> \o r : r \in Shapes(budget - Len(g))} :
              g \in UNION {KeySeqs(n) : n \in 1..budget}}

InputValue(c) ==
    CASE c % 3 = 1 -> <<"str", "LETTER">>
      [] c % 3 = 2 -> <<"list", "KEY", "ALIAS">>
      [] OTHER -> Placeholder
InputComment == <<"# ", <<"edited by hand">>>>

InputRegistry(shape) ==
    [i \in 1..Len(shape) |->
        [id |-> i,
         heading |-> InputComment,
         items |-> [j \in 1..Len(shape[i]) |->
            [key |-> shape[i][j],
             value |-> InputValue(shape[i][j]),
             comment |-> InputComment]]]]

InputDocuments == {dump(InputRegistry(shape)) : shape \in Shapes(MaxKeys)}

(***************************************************************************)
(* State of one or two invocations of update_codepoints.                   *)
(***************************************************************************)
VARIABLES
    pc,          \* position in update_codepoints
    err,         \* the exception that ended the run, or "none"
    run,         \* "first" or "second" invocation
    path,        \* the path argument, then the resolved path
    blocks,      \* list(get_unicode_blocks())
    codepoints,  \* the registry in memory
    used,        \* get_used_codepoints()
    k,           \* index of the running loop (used in lines 142 and 163)
    disk         \* the registry document on disk

vars == <<pc, err, run, path, blocks, codepoints, used, k, disk>>

Init ==
    /\ pc = "start"
    /\ err = "none"
    /\ run = "first"
    /\ path \in {"None", "codepoints.yaml"}
    /\ blocks = <<>>
    /\ codepoints = <<>>
    /\ used = <<>>
    /\ k = 1
    /\ disk \in InputDocuments

Raise(e) == pc' = "error" /\ err' = e

\* Lines 213-219.  The registry is one file: an explicit path names the file
\* that ROOT_PATH / "codepoints.yaml" names.
CheckPath ==
    /\ pc = "start"
    /\ IF path = "None"
       THEN \E is_editable \in BOOLEAN :
               IF ~is_editable
               THEN Raise("RuntimeError") /\ path' = path
               ELSE pc' = "fetch" /\ err' = err /\ path' = "codepoints.yaml"
       ELSE pc' = "fetch" /\ UNCHANGED <<err, path>>
    /\ UNCHANGED <<run, blocks, codepoints, used, k, disk>>

\* Line 221.  The second invocation is served the same table.
FetchBlocks ==
    /\ pc = "fetch"
    /\ \E table \in get_unicode_blocks :
          /\ run = "second" => table = blocks
          /\ blocks' = table
    /\ pc' = "load"
    /\ UNCHANGED <<err, run, path, codepoints, used, k, disk>>

\* Line 221: urlopen fails.
FetchFails ==
    /\ pc = "fetch"
    /\ Raise("URLError")
    /\ UNCHANGED <<run, path, blocks, codepoints, used, k, disk>>

\* Line 222.
LoadRegistry ==
    /\ pc = "load"
    /\ codepoints' = get_codepoint_names_raw(disk)
    /\ pc' = "used"
    /\ UNCHANGED <<err, run, path, blocks, used, k, disk>>

\* Line 223.  The second invocation sees the same keyboard layouts.
GetUsed ==
    /\ pc = "used"
    /\ \E S \in SUBSET Codepoints :
          /\ run = "second" => sorted(S) = used
          /\ used' = sorted(S)
    /\ pc' = "remove"
    /\ UNCHANGED <<err, run, path, blocks, codepoints, k, disk>>

(***************************************************************************)
(* remove_unused_codepoints, one deletion per step.  The loops visit the   *)
(* entries in registry order and every entry already visited is used, so   *)
(* the next deletion is the first unused entry of the registry.            *)
(***************************************************************************)
UnusedIn(map) == {j \in 1..Len(map.items) : map.items[j].key \notin Range(used)}
GroupsWithUnused == {i \in 1..Len(codepoints) : UnusedIn(codepoints[i]) # {}}

RemoveStep ==
    /\ pc = "remove"
    /\ GroupsWithUnused # {}
    /\ LET i == MinOf(GroupsWithUnused)
           j == MinOf(UnusedIn(codepoints[i]))
       IN  codepoints' = [codepoints EXCEPT ![i] = delete_key(@, @.items[j].key)]
    /\ UNCHANGED <<pc, err, run, path, blocks, used, k, disk>>

RemoveDone ==
    /\ pc = "remove"
    /\ GroupsWithUnused = {}
    /\ pc' = "add"
    /\ k' = 1
    /\ UNCHANGED <<err, run, path, blocks, codepoints, used, disk>>

(***************************************************************************)
(* add_new_codepoint_placeholders, one codepoint of used per step.         *)
(***************************************************************************)
AddStep ==
    /\ pc = "add"
    /\ k <= Len(used)
    /\ LET c == used[k]
           n == codepoint_to_block(c, blocks)
       IN  IF n = 0
           THEN Raise("StopIteration") /\ UNCHANGED <<codepoints, k>>
           ELSE LET r == find_block(codepoints, blocks[n])
                IN  IF r.status # "ok"
                    THEN Raise(r.status) /\ UNCHANGED <<codepoints, k>>
                    ELSE /\ codepoints' =
                               [r.codepoints EXCEPT ![r.index] = insert_placeholder(@, c)]
                         /\ k' = k + 1
                         /\ UNCHANGED <<pc, err>>
    /\ UNCHANGED <<run, path, blocks, used, disk>>

AddDone ==
    /\ pc = "add"
    /\ k > Len(used)
    /\ pc' = "annotate"
    /\ k' = 1
    /\ UNCHANGED <<err, run, path, blocks, codepoints, used, disk>>

(***************************************************************************)
(* add_codepoint_comments, one group per step.                             *)
(***************************************************************************)
\* Variant of AnnotateStep: a group without a first key is skipped.
AnnotateStep_skip_empty ==
    /\ pc = "annotate"
    /\ k <= Len(codepoints)
    /\ IF IsEmpty(codepoints[k])
       THEN k' = k + 1 /\ UNCHANGED <<pc, err, codepoints>>
       ELSE LET n == codepoint_to_block(first_key(codepoints[k]), blocks)
            IN  IF n = 0
                THEN Raise("StopIteration") /\ UNCHANGED <<codepoints, k>>
                ELSE /\ codepoints' = [codepoints EXCEPT ![k] = annotate_group(@, blocks[n])]
                     /\ k' = k + 1
                     /\ UNCHANGED <<pc, err>>
    /\ UNCHANGED <<run, path, blocks, used, disk>>

AnnotateStep ==
    /\ pc = "annotate"
    /\ k <= Len(codepoints)
    /\ IF IsEmpty(codepoints[k])
       THEN Raise("IndexError") /\ UNCHANGED <<codepoints, k>>
       ELSE LET n == codepoint_to_block(first_key(codepoints[k]), blocks)
            IN  IF n = 0
                THEN Raise("StopIteration") /\ UNCHANGED <<codepoints, k>>
                ELSE /\ codepoints' = [codepoints EXCEPT ![k] = annotate_group(@, blocks[n])]
                     /\ k' = k + 1
                     /\ UNCHANGED <<pc, err>>
    /\ UNCHANGED <<run, path, blocks, used, disk>>

AnnotateDone ==
    /\ pc = "annotate"
    /\ k > Len(codepoints)
    /\ pc' = "write"
    /\ UNCHANGED <<err, run, path, blocks, codepoints, used, k, disk>>

\* Lines 229-233.
WriteFile ==
    /\ pc = "write"
    /\ disk' = dump(codepoints)
    /\ pc' = "done"
    /\ UNCHANGED <<err, run, path, blocks, codepoints, used, k>>

\* The script is run again on its own output.
RunAgain ==
    /\ pc = "done"
    /\ run = "first"
    /\ run' = "second"
    /\ pc' = "start"
    /\ path' \in {"None", "codepoints.yaml"}
    /\ UNCHANGED <<err, blocks, codepoints, used, k, disk>>

Next ==
    \/ CheckPath
    \/ FetchBlocks
    \/ FetchFails
    \/ LoadRegistry
    \/ GetUsed
    \/ RemoveStep
    \/ RemoveDone
    \/ AddStep
    \/ AddDone
    \/ AnnotateStep
    \/ AnnotateDone
    \/ WriteFile
    \/ RunAgain

Spec == Init /\ [][Next]_vars

(***************************************************************************)
(* Vocabulary of the properties.                                           *)
(***************************************************************************)
\* Until the file is written the document on disk is the input of the run.
Input == get_codepoint_names_raw(disk)
Reconciling == pc \in {"remove", "add", "annotate", "write"}
Reconciled == pc \in {"annotate", "write"}

AllKeys(cps) == UNION {KeySet(cps[i]) : i \in 1..Len(cps)}
UsedSet == Range(used)
Covered(c) == \E n \in 1..Len(blocks) : blocks[n].start <= c /\ c <= blocks[n].end
\* The block of c, read off the table without codepoint_to_block.
BlockOf(c) == CHOOSE n \in 1..Len(blocks) : blocks[n].start <= c /\ c <= blocks[n].end

StrictlyIncreasing(seq) == \A i, j \in 1..Len(seq) : i < j => seq[i] < seq[j]
NonEmptyGroups(cps) == {i \in 1..Len(cps) : ~IsEmpty(cps[i])}
GroupsSortedByFirstKey(cps) ==
    \A i, j \in NonEmptyGroups(cps) : i < j => cps[i].items[1].key < cps[j].items[1].key
Sorted(cps) ==
    /\ \A i \in 1..Len(cps) : StrictlyIncreasing(keys(cps[i]))
    /\ GroupsSortedByFirstKey(cps)
\* Every key of a group is smaller than every key of the groups after it.
NotInterleaved(cps) ==
    \A i, j \in 1..Len(cps) :
        i < j => \A a \in KeySet(cps[i]), b \in KeySet(cps[j]) : a < b
OneGroupPerCodepoint(cps) ==
    \A i, j \in 1..Len(cps) : i # j => KeySet(cps[i]) \cap KeySet(cps[j]) = {}

\* What the run changed between loading and the end of reconciliation.
Deleted == AllKeys(Input) \ AllKeys(codepoints)
Inserted == AllKeys(codepoints) \ AllKeys(Input)

(***************************************************************************)
(* C1.  Exact key-set correspondence: once remove_unused_codepoints and    *)
(* add_new_codepoint_placeholders have completed, the codepoints present   *)
(* across all groups are exactly the used codepoints.                      *)
(***************************************************************************)
C1_ExactKeySet == pc \in {"annotate", "write", "done"} => AllKeys(codepoints) = UsedSet

\* Reconciliation has just completed after deleting and inserting.
C1_Witness ==
    /\ run = "first" /\ pc = "annotate" /\ k = 1
    /\ Deleted # {} /\ Inserted # {}
    /\ AllKeys(Input) \cap UsedSet # {}

(***************************************************************************)
(* C2.  Names are never overwritten: while the run reconciles and          *)
(* annotates, every entry of the registry is either an entry its group     *)
(* had on input, with the same NameValue, or a placeholder "" for a key    *)
(* the group did not have; and no used entry of the input is lost.         *)
(***************************************************************************)
InputValueOf(id, c) ==
    LET e == CHOOSE e \in Range(Input[id].items) : e.key = c IN e.value
WasInInput(id, c) == id <= Len(Input) /\ c \in KeySet(Input[id])

C2_NamesNeverOverwritten ==
    Reconciling =>
        /\ \A g \in Range(codepoints) : \A e \in Range(g.items) :
              IF WasInInput(g.id, e.key)
              THEN e.value = InputValueOf(g.id, e.key)
              ELSE e.value = Placeholder
        /\ \A i \in 1..Len(Input) : \A c \in KeySet(Input[i]) \cap UsedSet :
              \E g \in Range(codepoints) : g.id = i /\ c \in KeySet(g)

\* A named entry was kept and a placeholder was added next to it.
C2_Witness ==
    /\ run = "first" /\ pc = "write"
    /\ \E g \in Range(codepoints) :
          /\ \E e \in Range(g.items) : WasInInput(g.id, e.key) /\ Truthy(e.value)
          /\ \E e \in Range(g.items) : ~WasInInput(g.id, e.key)

(***************************************************************************)
(* C3.  Sortedness.  As claimed: if the input registry has every group     *)
(* strictly increasing by codepoint and the groups strictly increasing by  *)
(* first key, the same holds of the non-empty groups after every deletion  *)
(* and every insertion step.                                               *)
(***************************************************************************)
C3_SortednessPreserved == (Reconciling /\ Sorted(Input)) => Sorted(codepoints)

(***************************************************************************)
(* C3, amended.  If in the input registry every group is strictly          *)
(* increasing by codepoint and every codepoint of a group is smaller than  *)
(* every codepoint of the groups after it, then after every deletion and   *)
(* every insertion step every group is strictly increasing by codepoint    *)
(* and the non-empty groups are strictly increasing by first key.          *)
(***************************************************************************)
C3_SortednessOfSeparateGroups ==
    (Reconciling /\ Sorted(Input) /\ NotInterleaved(Input)) => Sorted(codepoints)

\* A first key was deleted, a key was inserted before a first key and a group
\* was created between two groups.
C3_Witness ==
    /\ run = "first" /\ pc = "annotate" /\ k = 1
    /\ Sorted(Input) /\ NotInterleaved(Input) /\ Len(Input) >= 2
    /\ \E i \in 1..Len(Input) : Input[i].items[1].key \in Deleted
    /\ Len(codepoints) > Len(Input)
    /\ \E i \in 2..(Len(codepoints) - 1) : codepoints[i].id > Len(Input)

(***************************************************************************)
(* C4.  Block membership: with every group of the input inside one block   *)
(* of the table, once reconciliation has completed every entry lies in the *)
(* block that its group's first key lies in.                               *)
(***************************************************************************)
InOneBlock(map) ==
    /\ \A c \in KeySet(map) : Covered(c)
    /\ \A a, b \in KeySet(map) : BlockOf(a) = BlockOf(b)

C4_BlockMembership ==
    (Reconciled /\ \A i \in 1..Len(Input) : InOneBlock(Input[i])) =>
        \A g \in Range(codepoints) : InOneBlock(g)

\* A placeholder joined an existing group and another one got a new group.
C4_Witness ==
    /\ run = "first" /\ pc = "annotate" /\ k = 1
    /\ \A i \in 1..Len(Input) : InOneBlock(Input[i])
    /\ Len(codepoints) > Len(Input)
    /\ \E g \in Range(codepoints) : g.id <= Len(Input) /\ KeySet(g) \cap Inserted # {}

(***************************************************************************)
(* C5.  Idempotence: the second invocation, on the output of the first     *)
(* with the same block table and used codepoints, never fails in           *)
(* reconciliation or annotation and at every point from loading to the end *)
(* has in memory exactly the registry on disk (groups, entries, names,     *)
(* entry comments, headings); what it writes is the document already there.*)
(***************************************************************************)
C5_Idempotent ==
    run = "second" =>
        /\ err \in {"none", "RuntimeError", "URLError"}
        /\ pc \in {"used", "remove", "add", "annotate", "write", "done"} =>
              /\ codepoints = get_codepoint_names_raw(disk)
              /\ dump(codepoints) = disk

\* The second invocation has finished on a registry of several groups with a
\* placeholder that carries its Unicode name as a comment.
C5_Witness ==
    /\ run = "second" /\ pc = "done"
    /\ Len(codepoints) >= 2
    /\ \E g \in Range(codepoints) : \E e \in Range(g.items) :
          e.value = Placeholder /\ Len(e.comment) = 3

(***************************************************************************)
(* C6.  Emptied groups are tolerated: with every used codepoint covered by *)
(* the block table, the run does not fail after loading the registry; the  *)
(* only failures are those of the path check and of the block fetch.       *)
(***************************************************************************)
C6_EmptiedGroupsTolerated ==
    (pc = "error" /\ \A c \in UsedSet : Covered(c)) => err \in {"RuntimeError", "URLError"}

(***************************************************************************)
(* C7.  Lookup failure is fatal and never mis-assigns: when                *)
(* add_new_codepoint_placeholders reaches a used codepoint that no block   *)
(* of the table contains, the step ends the run in an error and changes    *)
(* neither the registry nor the file, and nothing happens after an error.  *)
(***************************************************************************)
C7_LookupFailureIsFatal ==
    [][/\ pc # "error"
       /\ (pc = "add" /\ k <= Len(used) /\ ~Covered(used[k])) =>
             /\ pc' = "error" /\ err' = "StopIteration"
             /\ codepoints' = codepoints
             /\ disk' = disk]_vars

\* The run failed on an uncovered codepoint after handling others, with more
\* codepoints left to handle.
C7_Witness ==
    /\ pc = "error" /\ err = "StopIteration"
    /\ 1 < k /\ k < Len(used)
    /\ ~Covered(used[k])

(***************************************************************************)
(* C8.  The write happens last: the steps of update_codepoints run in the  *)
(* order path check, block fetch, registry load, used codepoints, removal, *)
(* insertion, annotation, write; the file changes only in the write step,  *)
(* which is taken only when every earlier step has completed; a step that  *)
(* fails leaves the file as it was and nothing follows it.                 *)
(***************************************************************************)
PipelineOrder ==
    {<<"start", "fetch">>, <<"start", "error">>, <<"fetch", "load">>, <<"fetch", "error">>,
     <<"load", "used">>, <<"used", "remove">>, <<"remove", "remove">>, <<"remove", "add">>,
     <<"add", "add">>, <<"add", "annotate">>, <<"add", "error">>,
     <<"annotate", "annotate">>, <<"annotate", "write">>, <<"annotate", "error">>,
     <<"write", "done">>, <<"done", "start">>}

\* Everything update_codepoints does before opening the file has completed.
AllStepsCompleted ==
    /\ path # "None"
    /\ blocks \in get_unicode_blocks
    /\ AllKeys(codepoints) = UsedSet
    /\ \A g \in Range(codepoints) :
          /\ ~IsEmpty(g)
          /\ Covered(g.items[1].key)
          /\ g.heading = <<"\n", blocks[BlockOf(g.items[1].key)].name>>
          /\ \A e \in Range(g.items) : e.comment = get_char_comments(e.value, e.key)

C8_WriteHappensLast ==
    [][/\ <<pc, pc'>> \in PipelineOrder
       /\ pc' = "error" => disk' = disk
       /\ (disk' # disk \/ pc' = "done") => (pc = "write" /\ err = "none" /\ AllStepsCompleted)
       /\ pc' \notin {"start", "error"} => path' # "None"]_vars

\* A run failed after changing the registry in memory; the file is untouched.
C8_Witness ==
    /\ run = "first" /\ pc = "error" /\ err = "IndexError"
    /\ Deleted # {} /\ Inserted # {}
    /\ disk # dump(codepoints)

(***************************************************************************)
(* C9.  find_block on a registry of non-empty groups sorted by first key:  *)
(* if a group's first key lies in the block it returns such a group and    *)
(* leaves the registry as it is; otherwise it inserts one new empty group  *)
(* at the index of the first group whose first key is greater than         *)
(* block.end, or at the end, and leaves the other groups and their order   *)
(* unchanged.                                                              *)
(***************************************************************************)
GroupsOfBlock(cps, b) ==
    {i \in 1..Len(cps) : b.start <= cps[i].items[1].key /\ cps[i].items[1].key <= b.end}
GroupsBeyond(cps, b) == {i \in 1..Len(cps) : cps[i].items[1].key > b.end}

C9_FindBlock ==
    (pc = "add" /\ NonEmptyGroups(codepoints) = 1..Len(codepoints)
                /\ GroupsSortedByFirstKey(codepoints)) =>
        \A n \in 1..Len(blocks) :
            LET b == blocks[n]
                r == find_block(codepoints, b)
            IN  /\ r.status = "ok"
                /\ IF GroupsOfBlock(codepoints, b) # {}
                   THEN /\ r.codepoints = codepoints
                        /\ r.index \in GroupsOfBlock(codepoints, b)
                   ELSE /\ Len(r.codepoints) = Len(codepoints) + 1
                        /\ r.index \in 1..Len(r.codepoints)
                        /\ IsEmpty(r.codepoints[r.index])
                        /\ RemoveAt(r.codepoints, r.index) = codepoints
                        /\ r.index = IF GroupsBeyond(codepoints, b) = {}
                                     THEN Len(codepoints) + 1
                                     ELSE MinOf(GroupsBeyond(codepoints, b))

\* One block of the table has a group, another has none and its group belongs
\* between two existing groups.
C9_Witness ==
    /\ pc = "add" /\ NonEmptyGroups(codepoints) = 1..Len(codepoints)
    /\ GroupsSortedByFirstKey(codepoints)
    /\ \E n \in 1..Len(blocks) : GroupsOfBlock(codepoints, blocks[n]) # {}
    /\ \E n \in 1..Len(blocks) :
          /\ GroupsOfBlock(codepoints, blocks[n]) = {}
          /\ GroupsBeyond(codepoints, blocks[n]) # {}
          /\ MinOf(GroupsBeyond(codepoints, blocks[n])) > 1

(***************************************************************************)
(* C10.  No codepoint is ever in two groups: if no codepoint of the input  *)
(* registry is in two groups then after every deletion and every insertion *)
(* step no codepoint of the registry is in two groups.                     *)
(***************************************************************************)
C10_NoCodepointInTwoGroups ==
    (Reconciling /\ OneGroupPerCodepoint(Input)) => OneGroupPerCodepoint(codepoints)

====
